---------------------------- MODULE Spec2Model ----------------------------
(***************************************************************************)
(* A model of libfsx: the virtual filesystem tree (FileSystem), its export *)
(* and restore, and the upload and download streams.                       *)
(*                                                                         *)
(* Strings.  A JavaScript string is modelled as a sequence of characters.  *)
(* Every character the code looks at (the separators / \ : tab newline     *)
(* space, the forbidden name characters, digits, hex digits) is one        *)
(* element; a run of other characters that the code never looks into is    *)
(* written as one element (a word such as "FileSystem-Version").           *)
(***************************************************************************)
EXTENDS Integers, Sequences, FiniteSets, TLC

VARIABLES
  masterKey,       \* FileSystem.masterKey
  heap,            \* the objects reachable from FileSystem.root (root is object 1)
  headers,         \* FileSystem.headers, a Map in insertion order
  encryptionSalt,  \* FileSystem.encryptionSalt
  encryptionKey,   \* FileSystem.encryptionKey
  prev,            \* [heap, headers] as they were before the last call
  last,            \* the last call made on the FileSystem and how it ended
  before,          \* the call made before the last one
  ncalls,          \* number of calls made so far
  upload,          \* the UploadStream: buffer, chunks, done, totalBytes, key
  writable,        \* UploadStream.stream and the sink call it is running
  blobs,           \* what the webhook has stored; a link is a position in it
  written,         \* the payloads handed to write, in write order
  download,        \* the DownloadStream: chunks, chunkIndex, done, currentBytes, totalBytes, key
  readable,        \* DownloadStream.stream and the getChunk it is running
  emitted,         \* the blocks enqueued on DownloadStream.stream, in order
  completion       \* the handler beginUpload attaches to the end of the upload

fsvars == <<masterKey, heap, headers, encryptionSalt, encryptionKey, prev, last, before, ncalls>>

streamvars == <<upload, writable, blobs, written, download, readable, emitted, completion>>

vars == <<fsvars, streamvars>>

\* no stream object has been constructed
NoStream == [absent |-> TRUE]

NoStreams ==
  /\ upload = NoStream
  /\ writable = NoStream
  /\ blobs = <<>>
  /\ written = <<>>
  /\ download = NoStream
  /\ readable = NoStream
  /\ emitted = <<>>
  /\ completion = NoStream

-----------------------------------------------------------------------------
(* Sequence helpers *)

Range(s) == {s[i] : i \in 1..Len(s)}

SelectIdx(s, i) == IF i \in 1..Len(s) THEN s[i] ELSE <<>>

RECURSIVE Concat(_)
Concat(ss) == IF ss = <<>> THEN <<>> ELSE Head(ss) \o Concat(Tail(ss))

\* Array.prototype.filter((s) => s.length)
RECURSIVE FilterNonEmpty(_)
FilterNonEmpty(s) ==
  IF s = <<>> THEN <<>>
  ELSE (IF Len(Head(s)) > 0 THEN <<Head(s)>> ELSE <<>>) \o FilterNonEmpty(Tail(s))

\* String.prototype.split(separator): n separators give n+1 parts, empty ones kept;
\* cuts holds the indices of the separators, and the two ends
SplitAt(s, cuts) ==
  [k \in 1..(Cardinality(cuts) - 1) |->
     SubSeq(s, (CHOOSE i \in cuts : Cardinality({j \in cuts : j < i}) = k - 1) + 1,
               (CHOOSE i \in cuts : Cardinality({j \in cuts : j < i}) = k) - 1)]

Split(s, seps) == SplitAt(s, {0, Len(s) + 1} \cup {i \in 1..Len(s) : s[i] \in seps})

\* Array.prototype.join(separator)
RECURSIVE Join(_, _)
Join(parts, sep) ==
  IF parts = <<>> THEN <<>>
  ELSE IF Len(parts) = 1 THEN parts[1]
  ELSE parts[1] \o sep \o Join(Tail(parts), sep)

\* path.split("/").filter((s) => s.length)
Segments(path, seps) == FilterNonEmpty(Split(path, seps))

-----------------------------------------------------------------------------
(* utils.ts *)

PathSeparators == {"/", "\\"}

dirname(path) ==
  LET segments == Segments(path, PathSeparators)
      popped   == IF segments = <<>> THEN <<>> ELSE SubSeq(segments, 1, Len(segments) - 1)
  IN <<"/">> \o Join(popped, <<"/">>)

basename(path) ==
  LET parts == Split(path, PathSeparators)
  IN parts[Len(parts)]

HexDigits == <<"0", "1", "2", "3", "4", "5", "6", "7", "8", "9", "a", "b", "c", "d", "e", "f">>

\* ("0" + (byte & 0xff).toString(16)).slice(-2)
ByteToHex(byte) ==
  LET b == byte % 256
      s == IF b < 16 THEN <<HexDigits[b + 1]>> ELSE <<HexDigits[(b \div 16) + 1], HexDigits[(b % 16) + 1]>>
      padded == <<"0">> \o s
  IN SubSeq(padded, Len(padded) - 1, Len(padded))

RECURSIVE ui8ArrayToHex(_)
ui8ArrayToHex(arr) ==
  IF arr = <<>> THEN <<>> ELSE ByteToHex(Head(arr)) \o ui8ArrayToHex(Tail(arr))

NaN == -1

HexValue(c) ==
  IF \E i \in 1..16 : HexDigits[i] = c
  THEN (CHOOSE i \in 1..16 : HexDigits[i] = c) - 1
  ELSE NaN

\* parseInt(hex.substr(i, 2), 16): the leading hex digits of the two characters
ParseHexPair(pair) ==
  IF pair = <<>> \/ HexValue(pair[1]) = NaN THEN NaN
  ELSE IF Len(pair) = 1 \/ HexValue(pair[2]) = NaN THEN HexValue(pair[1])
  ELSE HexValue(pair[1]) * 16 + HexValue(pair[2])

\* Uint8Array.from stores NaN as 0
RECURSIVE hexToUi8Array(_)
hexToUi8Array(hex) ==
  IF hex = <<>> THEN <<>>
  ELSE LET pair == SubSeq(hex, 1, IF Len(hex) >= 2 THEN 2 ELSE 1)
           v    == ParseHexPair(pair)
       IN <<IF v = NaN THEN 0 ELSE v>> \o hexToUi8Array(SubSeq(hex, Len(pair) + 1, Len(hex)))

Digits == <<"0", "1", "2", "3", "4", "5", "6", "7", "8", "9">>

IsDigit(c) == \E i \in 1..10 : Digits[i] = c

DigitValue(c) == (CHOOSE i \in 1..10 : Digits[i] = c) - 1

\* String(n) for a non-negative integer n, as [..].join("\t") and template strings write it
RECURSIVE NumberToString(_)
NumberToString(n) ==
  IF n = NaN THEN <<"NaN">>
  ELSE IF n < 10 THEN <<Digits[n + 1]>>
  ELSE NumberToString(n \div 10) \o <<Digits[(n % 10) + 1]>>

RECURSIVE ParseDigits(_, _)
ParseDigits(s, acc) ==
  IF s = <<>> \/ ~IsDigit(Head(s)) THEN acc
  ELSE ParseDigits(Tail(s), acc * 10 + DigitValue(Head(s)))

WhiteSpace == {" ", "\t", "\n", "\r"}

RECURSIVE TrimStart(_)
TrimStart(s) == IF s # <<>> /\ Head(s) \in WhiteSpace THEN TrimStart(Tail(s)) ELSE s

RECURSIVE TrimEnd(_)
TrimEnd(s) ==
  IF s # <<>> /\ s[Len(s)] \in WhiteSpace THEN TrimEnd(SubSeq(s, 1, Len(s) - 1)) ELSE s

\* String.prototype.trim
Trim(s) == TrimEnd(TrimStart(s))

\* parseInt(s) in base 10 of an unsigned numeral: leading white space skipped,
\* the digits up to the first other character read, NaN when there is none
parseInt(s) ==
  LET t == TrimStart(s)
  IN IF t = <<>> \/ ~IsDigit(Head(t)) THEN NaN ELSE ParseDigits(t, 0)

-----------------------------------------------------------------------------
(* types.ts: the nodes.  The objects of the tree live in a heap, a sequence *)
(* of records; an object's identity is its index, a reference is an index. *)
(* A directory is [type, name, children] with children a sequence of       *)
(* references; a file is [type, name, size, creationDate, metaUrl].        *)

File == 0
Directory == 1

null == 0

\* FileSystem.root
root == 1

\* the line-split field that is missing from a short line
undefined == <<"#undefined">>

\* errors.ts
NoError == "none"
InvalidOperationError == "InvalidOperationError"
InvalidNameError == "InvalidNameError"
ForbiddenCharactersError == "ForbiddenCharactersError"

\* ForbiddenCharactersError extends InvalidNameError
IsInvalidName(error) == error \in {InvalidNameError, ForbiddenCharactersError}

\* constants.ts: /[<>:"/\\|?*]/
ForbiddenNameCharacters == {"<", ">", ":", "\"", "/", "\\", "|", "?", "*"}

ForbiddenNameCharactersTest(name) == \E i \in 1..Len(name) : name[i] \in ForbiddenNameCharacters

\* children.find((c) => c.name === name) ?? null
RECURSIVE findChild(_, _, _)
findChild(h, children, name) ==
  IF children = <<>> THEN null
  ELSE IF h[Head(children)].name = name THEN Head(children)
  ELSE findChild(h, Tail(children), name)

\* a filter that lets every child through
withoutNothing(h, children, name) == children

\* children.filter((c) => c.name !== name)
RECURSIVE withoutName(_, _, _)
withoutName(h, children, name) ==
  IF children = <<>> THEN <<>>
  ELSE (IF h[Head(children)].name # name THEN <<Head(children)>> ELSE <<>>)
         \o withoutName(h, Tail(children), name)

\* the objects reachable from the references in todo, in depth-first pre-order
RECURSIVE Reach(_, _, _)
Reach(h, todo, acc) ==
  IF todo = <<>> THEN acc
  ELSE LET id == Head(todo) IN
       IF id \in Range(acc) THEN Reach(h, Tail(todo), acc)
       ELSE Reach(h,
                  (IF h[id].type = Directory THEN h[id].children ELSE <<>>) \o Tail(todo),
                  Append(acc, id))

ReachSet(h, id) == IF id = null THEN {} ELSE Range(Reach(h, <<id>>, <<>>))

\* Garbage collection: the heap holds the objects reachable from the root,
\* numbered in depth-first pre-order.
Collect(h) ==
  LET order == Reach(h, <<root>>, <<>>)
      newId(id) == CHOOSE i \in 1..Len(order) : order[i] = id
  IN [i \in 1..Len(order) |->
        LET o == h[order[i]] IN
        IF o.type = Directory
        THEN [o EXCEPT !.children = [k \in 1..Len(o.children) |-> newId(o.children[k])]]
        ELSE o]

\* the value of an object: the node with its children in place of the references
RECURSIVE Val(_, _)
Val(h, id) ==
  IF id = null THEN [type |-> null]
  ELSE IF h[id].type = Directory
  THEN [type |-> Directory, name |-> h[id].name,
        children |-> [k \in 1..Len(h[id].children) |-> Val(h, h[id].children[k])]]
  ELSE h[id]

\* a node built by the caller (a value) placed in the heap as new objects
RECURSIVE NewNode(_, _), NewNodes(_, _, _)
NewNode(h, v) ==
  IF v.type = Directory
  THEN LET r  == NewNodes(h, v.children, <<>>)
           h2 == Append(r.heap, [type |-> Directory, name |-> v.name, children |-> r.ids])
       IN [heap |-> h2, id |-> Len(h2)]
  ELSE [heap |-> Append(h, v), id |-> Len(h) + 1]
NewNodes(h, vs, acc) ==
  IF vs = <<>> THEN [heap |-> h, ids |-> acc]
  ELSE LET r == NewNode(h, Head(vs)) IN NewNodes(r.heap, Tail(vs), Append(acc, r.id))

-----------------------------------------------------------------------------
(* fileSystem.ts: the tree *)

RECURSIVE getNodeWalk(_, _, _)
getNodeWalk(h, current, segments) ==
  IF current = null \/ segments = <<>> THEN current
  ELSE IF h[current].type = Directory
  THEN getNodeWalk(h, findChild(h, h[current].children, Head(segments)), Tail(segments))
  ELSE null

getNode(h, path) == getNodeWalk(h, root, Segments(path, {"/"}))

exists(h, path) == getNode(h, path) # null

\* the loop of setNode over the segments of parentDirectory
RECURSIVE setNodeWalk(_, _, _)
setNodeWalk(h, current, segments) ==
  IF segments = <<>> THEN [heap |-> h, current |-> current, error |-> NoError]
  ELSE LET name == Head(segments) IN
       IF h[current].type = Directory
       THEN LET child == findChild(h, h[current].children, name) IN
            IF child = null
            THEN LET new == Len(h) + 1
                     h1  == Append(h, [name |-> name, children |-> <<>>, type |-> Directory])
                     h2  == [h1 EXCEPT ![current].children = Append(@, new)]
                 IN setNodeWalk(h2, new, Tail(segments))
            ELSE IF h[child].type # Directory
            THEN [heap |-> h, current |-> current, error |-> InvalidOperationError]
            ELSE setNodeWalk(h, child, Tail(segments))
       ELSE [heap |-> h, current |-> current, error |-> InvalidOperationError]

\* the end of setNode that pushes the node without removing the old child of that name
setNodeKeepOldEnd(w, node) ==
  IF w.error # NoError THEN [heap |-> w.heap, error |-> w.error]
  ELSE [heap |-> [w.heap EXCEPT ![w.current].children = Append(@, node)], error |-> NoError]

\* setNode that pushes the node without removing the old child of that name
setNodeKeepOld(h, parentDirectory, node) ==
  IF ForbiddenNameCharactersTest(h[node].name) THEN [heap |-> h, error |-> ForbiddenCharactersError]
  ELSE IF Len(h[node].name) < 1 THEN [heap |-> h, error |-> InvalidNameError]
  ELSE setNodeKeepOldEnd(setNodeWalk(h, root, Segments(parentDirectory, {"/"})), node)

\* the end of setNode: the old child of that name filtered out, the node pushed
setNodeEnd(w, node, name) ==
  IF w.error # NoError THEN [heap |-> w.heap, error |-> w.error]
  ELSE [heap  |-> [w.heap EXCEPT ![w.current].children = Append(withoutName(w.heap, @, name), node)],
        error |-> NoError]

\* the end of a setNode that tests the name after it has walked parentDirectory
setNodeLateCheckEnd(w, node, name) ==
  IF w.error # NoError THEN [heap |-> w.heap, error |-> w.error]
  ELSE IF ForbiddenNameCharactersTest(name) THEN [heap |-> w.heap, error |-> ForbiddenCharactersError]
  ELSE IF Len(name) < 1 THEN [heap |-> w.heap, error |-> InvalidNameError]
  ELSE setNodeEnd(w, node, name)

\* setNode that tests the name after it has walked parentDirectory
setNodeLateCheck(h, parentDirectory, node) ==
  setNodeLateCheckEnd(setNodeWalk(h, root, Segments(parentDirectory, {"/"})), node, h[node].name)

\* setNode(parentDirectory, node), node a reference; [heap, error]
setNode(h, parentDirectory, node) ==
  IF ForbiddenNameCharactersTest(h[node].name) THEN [heap |-> h, error |-> ForbiddenCharactersError]
  ELSE IF Len(h[node].name) < 1 THEN [heap |-> h, error |-> InvalidNameError]
  ELSE setNodeEnd(setNodeWalk(h, root, Segments(parentDirectory, {"/"})), node, h[node].name)

\* setNode(parentDirectory, node) for a node the caller has just built: n is [heap, id]
setNewNode(n, parentDirectory) == setNode(n.heap, parentDirectory, n.id)

createDirectory(h, path) ==
  setNewNode(NewNode(h, [type |-> Directory, name |-> basename(path), children |-> <<>>]),
             dirname(path))

\* the loop of delete, removing a child that is no directory before it throws
RECURSIVE deleteWalkEager(_, _, _)
deleteWalkEager(h, current, segments) ==
  IF segments = <<>> THEN [heap |-> h, error |-> NoError]
  ELSE LET name == Head(segments)
           isLastSegment == Len(segments) = 1
       IN IF h[current].type = Directory
          THEN LET child == findChild(h, h[current].children, name) IN
               IF child = null THEN [heap |-> h, error |-> InvalidOperationError]
               ELSE IF isLastSegment \/ h[child].type # Directory
               THEN [heap  |-> [h EXCEPT ![current].children = withoutName(h, @, name)],
                     error |-> IF h[child].type # Directory THEN InvalidOperationError ELSE NoError]
               ELSE deleteWalkEager(h, child, Tail(segments))
          ELSE [heap |-> h, error |-> InvalidOperationError]

\* the loop of delete over the segments of dirname(path)
RECURSIVE deleteWalk(_, _, _)
deleteWalk(h, current, segments) ==
  IF segments = <<>> THEN [heap |-> h, error |-> NoError]
  ELSE LET name == Head(segments)
           isLastSegment == Len(segments) = 1
       IN IF h[current].type = Directory
          THEN LET child == findChild(h, h[current].children, name) IN
               IF child = null \/ h[child].type # Directory
               THEN [heap |-> h, error |-> InvalidOperationError]
               ELSE IF isLastSegment
               THEN [heap  |-> [h EXCEPT ![current].children = withoutName(h, @, name)],
                     error |-> NoError]
               ELSE deleteWalk(h, child, Tail(segments))
          ELSE [heap |-> h, error |-> InvalidOperationError]

delete(h, path) == deleteWalk(h, root, Segments(dirname(path), {"/"}))

\* a clone that is a new object for the node only and shares the objects below it
shallowClone(h, id) == [heap |-> Append(h, h[id]), id |-> Len(h) + 1]

\* structuredClone(sourceNode): new objects for the node and all below it
RECURSIVE structuredClone(_, _), cloneAll(_, _, _)
structuredClone(h, id) ==
  IF h[id].type = Directory
  THEN LET r  == cloneAll(h, h[id].children, <<>>)
           h2 == Append(r.heap, [h[id] EXCEPT !.children = r.ids])
       IN [heap |-> h2, id |-> Len(h2)]
  ELSE [heap |-> Append(h, h[id]), id |-> Len(h) + 1]
cloneAll(h, ids, acc) ==
  IF ids = <<>> THEN [heap |-> h, ids |-> acc]
  ELSE LET r == structuredClone(h, Head(ids)) IN cloneAll(r.heap, Tail(ids), Append(acc, r.id))

\* targetNode !== null && targetNode.type === IFileSystemNodeType.Directory
isDirectory(h, id) == id # null /\ h[id].type = Directory

\* where copy(source, target) places the clone
copyTarget(h, target) ==
  IF isDirectory(h, getNode(h, target))
  THEN target \o <<"/">> \o basename(target)
  ELSE target

\* the end of copy: the clone c, [heap, id], renamed and set in its place
copyClone(c, targetDirname, targetName) ==
  setNode([c.heap EXCEPT ![c.id].name = targetName], targetDirname, c.id)

\* copy with the source node and the place of the clone found
copyNode(h, sourceNode, target) ==
  IF sourceNode = null THEN [heap |-> h, error |-> InvalidOperationError]
  ELSE copyClone(structuredClone(h, sourceNode), dirname(target), basename(target))

copy(h, source, target) == copyNode(h, getNode(h, source), copyTarget(h, target))

\* the delete step of move, after a copy that ended as c
moveDelete(c, source) ==
  IF c.error # NoError THEN [heap |-> c.heap, error |-> c.error, copied |-> FALSE]
  ELSE [copied |-> TRUE] @@ delete(c.heap, source)

\* move(source, target); copied tells whether the copy step returned
move(h, source, target) == moveDelete(copy(h, source, target), source)

\* walkDirectory(startDirectory, callback, _pathAcc): the callback's calls, in order
RECURSIVE walkDirectory(_, _, _), walkChildren(_, _, _)
walkDirectory(h, startDirectory, pathAcc) == walkChildren(h, h[startDirectory].children, pathAcc)
walkChildren(h, children, pathAcc) ==
  IF children = <<>> THEN <<>>
  ELSE LET child == Head(children) IN
       (IF h[child].type = Directory
        THEN walkDirectory(h, child, Append(pathAcc, h[child].name))
        ELSE <<[file |-> child,
                path |-> <<"/">> \o Join(Append(pathAcc, h[child].name), <<"/">>)]>>)
       \o walkChildren(h, Tail(children), pathAcc)

-----------------------------------------------------------------------------
(* constants.ts, crypto.ts *)

\* the grave accent of the key is written out
DefaultEncryptionKey == <<"gp?mzj;C>[(N;X", "grave accent", "agGt,iT;%c$DfOGR(">>

\* the apostrophe of the salt is written out
EncryptionKeyHashSalt == <<"V[", "apostrophe", "Np6tb$g:h4Y%;">>

\* a passphrase a caller gives to the constructor
OtherMasterKey == <<"correct horse battery staple">>

MasterKeys == {DefaultEncryptionKey, OtherMasterKey}

\* crypto.subtle.digest("SHA-512", data): a digest that differs for different
\* data, cut to two bytes
createHash512(data) ==
  CASE data = DefaultEncryptionKey \o EncryptionKeyHashSalt -> <<26, 240>>
    [] data = OtherMasterKey \o EncryptionKeyHashSalt       -> <<7, 155>>
    [] OTHER                                                -> <<201, 64>>

getKeyMaterial(plaintextMasterKey) == plaintextMasterKey

\* PBKDF2: the key is determined by the key material and the salt, and by nothing else
getKey(keyMaterial, salt) == [material |-> keyMaterial, salt |-> salt]

\* what crypto.getRandomValues(new Uint8Array(16)) may give, cut to two bytes
Salts == {<<12, 171>>, <<250, 3>>}

\* what new Date().toISOString() may give
IsoDates == {<<"2023-05-01T10", ":", "20", ":", "30.000Z">>}

-----------------------------------------------------------------------------
(* fileSystem.ts: init and export *)

AuthenticationError == "Error: Invalid encryption key hash"

\* Map.prototype.set on a Map kept as the sequence of its [key, value] entries
MapSet(m, key, value) ==
  IF \E i \in 1..Len(m) : m[i].key = key
  THEN [i \in 1..Len(m) |-> IF m[i].key = key THEN [key |-> key, value |-> value] ELSE m[i]]
  ELSE Append(m, [key |-> key, value |-> value])

MapHas(m, key) == \E i \in 1..Len(m) : m[i].key = key

MapGet(m, key) ==
  IF MapHas(m, key) THEN m[CHOOSE i \in 1..Len(m) : m[i].key = key].value ELSE undefined

\* String.prototype.indexOf, 0-based, -1 when absent
IndexOf(s, c) ==
  IF \E i \in 1..Len(s) : s[i] = c
  THEN (CHOOSE i \in 1..Len(s) : s[i] = c /\ \A j \in 1..(i - 1) : s[j] # c) - 1
  ELSE 0 - 1

\* String.prototype.slice(start, end) with 0-based, possibly negative, indices
Slice(s, start, end) ==
  LET a == IF start < 0 THEN (IF Len(s) + start < 0 THEN 0 ELSE Len(s) + start)
           ELSE (IF start > Len(s) THEN Len(s) ELSE start)
      b == IF end < 0 THEN (IF Len(s) + end < 0 THEN 0 ELSE Len(s) + end)
           ELSE (IF end > Len(s) THEN Len(s) ELSE end)
  IN SubSeq(s, a + 1, b)

\* the headers init sets before it reads sourceData
defaultHeaders(key, salt, now) ==
  MapSet(MapSet(MapSet(MapSet(MapSet(MapSet(MapSet(<<>>,
    <<"FileSystem-Version">>, <<"1">>),
    <<"Creation-Date">>, now),
    <<"Description">>, <<"A data container">>),
    <<"Tags">>, <<>>),
    <<"Use-Encryption">>, <<"1">>),
    <<"Encryption-Salt">>, ui8ArrayToHex(salt)),
    <<"Encryption-Key-Hash">>, ui8ArrayToHex(createHash512(key \o EncryptionKeyHashSalt)))

emptyRoot == <<[name |-> <<>>, children |-> <<>>, type |-> Directory]>>

\* the key hash test that hashes the stored value before it compares
setHeaderRehash(st, givenKeyHash, k, v) ==
  IF k = <<"Encryption-Key-Hash">>
       /\ givenKeyHash # ui8ArrayToHex(createHash512(v \o EncryptionKeyHashSalt))
  THEN [st EXCEPT !.error = AuthenticationError]
  ELSE [st EXCEPT !.headers = MapSet(@, k, v)]

\* one header line of sourceData, cut into key and value; st is [done, headers, heap, error]
setHeader(st, givenKeyHash, k, v) ==
  IF k = <<"Encryption-Key-Hash">> /\ givenKeyHash # v
  THEN [st EXCEPT !.error = AuthenticationError]
  ELSE [st EXCEPT !.headers = MapSet(@, k, v)]

\* one header line of sourceData, cut at the first colon
parseHeaderAt(st, key, line, colonIndex) ==
  setHeader(st, ui8ArrayToHex(createHash512(key \o EncryptionKeyHashSalt)),
            Trim(Slice(line, 0, colonIndex)),
            Trim(Slice(line, colonIndex + 1, Len(line))))

parseHeader(st, key, line) == parseHeaderAt(st, key, line, IndexOf(line, ":"))

\* the fields of an entry line; a field the line lacks is undefined
field(parts, i) == IF i <= Len(parts) THEN parts[i] ELSE undefined

\* st after the setNode of an entry line, which ended as r
afterSetNode(st, r) == [st EXCEPT !.heap = r.heap, !.error = r.error]

\* one entry line of sourceData, split at the tabs
parseEntryParts(st, parts) ==
  afterSetNode(st, setNewNode(NewNode(st.heap, [type |-> File, name |-> basename(field(parts, 1)),
                                                size |-> parseInt(field(parts, 2)),
                                                creationDate |-> parseInt(field(parts, 3)),
                                                metaUrl |-> field(parts, 4)]),
                              dirname(field(parts, 1))))

parseEntry(st, line) == parseEntryParts(st, Split(line, {"\t"}))

\* one turn of the loop of init: a header line, the empty line that ends the
\* headers, or an entry line
initLine(st, key, line) ==
  IF st.done THEN parseEntry(st, line)
  ELSE IF Len(line) < 1 THEN [st EXCEPT !.done = TRUE]
  ELSE parseHeader(st, key, line)

\* the loop of init over data.split("\n"), left when a line throws
RECURSIVE initLines(_, _, _)
initLines(st, key, lines) ==
  IF lines = <<>> \/ st.error # NoError THEN st
  ELSE initLines(initLine(st, key, Head(lines)), key, Tail(lines))

\* the end of init: the salt and the key taken from the headers read
initEnd(key, st, salt2) ==
  [heap |-> st.heap, headers |-> st.headers, salt |-> salt2,
   key |-> getKey(getKeyMaterial(key), salt2), error |-> st.error]

\* an init that keeps the salt it generated at its start
initSaltFresh(key, st, salt, restored) == initEnd(key, st, salt)

\* init after the loop over the lines has ended as st
initSalt(key, st, salt, restored) ==
  initEnd(key, st,
          IF restored /\ st.error = NoError
          THEN hexToUi8Array(MapGet(st.headers, <<"Encryption-Salt">>))
          ELSE salt)

\* init with the default headers set, st0
initFrom(key, st0, sourceData, salt) ==
  IF sourceData = undefined THEN initSalt(key, st0, salt, FALSE)
  ELSE initSalt(key, initLines(st0, key, Split(sourceData, {"\n"})), salt, TRUE)

\* init(sourceData) of a FileSystem constructed with key; salt and now are what
\* the random generator and the clock give.  [heap, headers, salt, key, error]
init(key, sourceData, salt, now) ==
  initFrom(key, [done |-> FALSE, headers |-> defaultHeaders(key, salt, now),
                 heap |-> emptyRoot, error |-> NoError], sourceData, salt)

\* file lines with the size written in the place of the creation date
fileLinesSizeTwice(h) ==
  LET files == walkDirectory(h, root, <<>>) IN
  [i \in 1..Len(files) |->
     Join(<<files[i].path,
            NumberToString(h[files[i].file].size),
            NumberToString(h[files[i].file].size),
            h[files[i].file].metaUrl>>, <<"\t">>)]

\* the lines export writes for the files
fileLines(h) ==
  LET files == walkDirectory(h, root, <<>>) IN
  [i \in 1..Len(files) |->
     Join(<<files[i].path,
            NumberToString(h[files[i].file].size),
            NumberToString(h[files[i].file].creationDate),
            h[files[i].file].metaUrl>>, <<"\t">>)]

\* an export that writes no empty line between the headers and the files
exportNoBlank(h, hdrs) ==
  LET headerLines == [i \in 1..Len(hdrs) |-> hdrs[i].key \o <<":", " ">> \o hdrs[i].value]
  IN Join(headerLines \o fileLines(h), <<"\n">>)

\* export(): the text of the snapshot
export(h, hdrs) ==
  LET headerLines == [i \in 1..Len(hdrs) |-> hdrs[i].key \o <<":", " ">> \o hdrs[i].value]
  IN Join(headerLines \o <<<<>>>> \o fileLines(h), <<"\n">>)

-----------------------------------------------------------------------------
(* The calls a program makes on a FileSystem, and their arguments *)

MaxCalls == 2

Names == {<<"a">>, <<"b">>}

\* "/" followed by the segments joined with "/"
PathOf(segments) == <<"/">> \o Join(segments, <<"/">>)

\* the paths given to createDirectory and delete
PathArgs ==
  {PathOf(<<>>)} \cup {PathOf(<<x>>) : x \in Names} \cup {PathOf(<<x, y>>) : x, y \in Names}

\* the sources and the targets given to copy and move
SourceArgs == {PathOf(<<<<"a">>>>), PathOf(<<<<"b">>>>), PathOf(<<<<"a">>, <<"b">>>>), PathOf(<<<<"b">>, <<"a">>>>)}

TargetArgs == {PathOf(<<>>), PathOf(<<<<"a">>>>), PathOf(<<<<"b">>>>), PathOf(<<<<"b">>, <<"b">>>>)}

\* the parent directories given to setNode
DirArgs == {PathOf(<<>>), PathOf(<<<<"a">>>>), PathOf(<<<<"b">>, <<"b">>>>)}

\* the parent directory given to setNode with a name it must refuse
DeepDirArgs == {PathOf(<<<<"b">>, <<"b">>>>)}

\* a parent directory given to setNode of which a segment holds a forbidden character
ForbiddenDirArgs == {PathOf(<<<<"a", "?">>>>)}

FileNode(name, size, creationDate, metaUrl) ==
  [type |-> File, name |-> name, size |-> size, creationDate |-> creationDate, metaUrl |-> metaUrl]

DirectoryNode(name, children) == [type |-> Directory, name |-> name, children |-> children]

Url(word) == <<"https", ":", "/", "/", "cdn.example", "/", word>>

LegalNodeArgs ==
  { FileNode(<<"a">>, 3, 1700, Url("m1")),
    FileNode(<<"b">>, 120, 45, Url("m2")),
    DirectoryNode(<<"b">>, <<>>),
    DirectoryNode(<<"a">>, <<FileNode(<<"b">>, 7, 9, Url("m3"))>>) }

\* a file whose name holds a tab, which ForbiddenNameCharactersTest lets pass
ControlNameArgs == {FileNode(<<"a", "\t", "b">>, 5, 6, Url("m8"))}

\* names setNode must refuse: the empty name and one name for each forbidden character
IllegalNames == {<<>>} \cup {<<"a", c>> : c \in ForbiddenNameCharacters}

IllegalNodeArgs == {FileNode(name, 1, 2, Url("m4")) : name \in IllegalNames}

NoNode == [type |-> null]

\* the record of a call: its name, its arguments (path, target, node), how it
\* ended, whether the copy step of a move returned, and where a copy placed the clone
CallRecord(op, path, target, node, error, copied, placed) ==
  [op |-> op, path |-> path, target |-> target, node |-> node, error |-> error,
   copied |-> copied, placed |-> placed]

\* the hash init sets and looks for under the key Encryption-Key-Hash
keyHash(key) == ui8ArrayToHex(createHash512(key \o EncryptionKeyHashSalt))

\* no Encryption-Key-Hash line in the header section of a snapshot
NoHash == <<"#none">>

\* the record of a call of init: data is what was given, the text of sourceData
\* with the Encryption-Key-Hash value in its header section
InitRecord(data, error) ==
  [data |-> data] @@ CallRecord("init", <<>>, <<>>, NoNode, error, FALSE, <<>>)

\* the snapshots a FileSystem may be restored from when the program starts:
\* the export of a FileSystem that holds the given files
RECURSIVE SeedHeap(_, _)
SeedHeap(h, entries) ==
  IF entries = <<>> THEN h
  ELSE SeedHeap(setNewNode(NewNode(h, entries[1].node), entries[1].dir).heap, Tail(entries))

SeedEntries ==
  { <<>>,
    << [dir |-> PathOf(<<>>), node |-> FileNode(<<"a">>, 3, 1700, Url("m1"))],
       [dir |-> PathOf(<<<<"b">>>>), node |-> FileNode(<<"a">>, 64, 1701, Url("m5"))] >>,
    << [dir |-> PathOf(<<<<"a">>>>), node |-> FileNode(<<"a">>, 10, 1702, Url("m6"))],
       [dir |-> PathOf(<<<<"a">>, <<"b">>>>), node |-> FileNode(<<"b">>, 0, 1703, Url("m7"))] >> }

SeedBlob(entries, key, salt, now) ==
  export(Collect(SeedHeap(emptyRoot, entries)), defaultHeaders(key, salt, now))

-----------------------------------------------------------------------------
(* The FileSystem as a state machine *)

\* the FileSystem after init(sourceData) has ended as r
Started(key, sourceData, r) ==
  /\ masterKey = key
  /\ heap = Collect(r.heap)
  /\ headers = r.headers
  /\ encryptionSalt = r.salt
  /\ encryptionKey = r.key
  /\ prev = [heap |-> emptyRoot, headers |-> <<>>]
  /\ last = InitRecord([persisted |-> keyHash(key), text |-> sourceData], r.error)
  /\ before = CallRecord("new", <<>>, <<>>, NoNode, NoError, FALSE, <<>>)
  /\ ncalls = 0
  /\ NoStreams

\* new FileSystem(webhook, masterKey) followed by init(sourceData)
InitWith(key, salt, entries, now) ==
  Started(key, SeedBlob(entries, key, salt, now),
          init(key, SeedBlob(entries, key, salt, now), salt, now))

Init == \E entries \in SeedEntries, now \in IsoDates : InitWith(DefaultEncryptionKey, <<12, 171>>, entries, now)

\* a call on the tree that ends as r, [heap, error] and for move [heap, error, copied]
TreeStep(r, op, path, target, node, placed) ==
  /\ ncalls < MaxCalls
  /\ heap' = Collect(r.heap)
  /\ prev' = [heap |-> heap, headers |-> headers]
  /\ before' = last
  /\ last' = CallRecord(op, path, target, node, r.error,
                        IF "copied" \in DOMAIN r THEN r.copied ELSE FALSE, placed)
  /\ ncalls' = ncalls + 1
  /\ UNCHANGED <<masterKey, headers, encryptionSalt, encryptionKey>>

\* a call on the tree made by the caller
TreeCall(r, op, path, target, node, placed) ==
  /\ TreeStep(r, op, path, target, node, placed)
  /\ UNCHANGED streamvars

SetNode ==
  \E call \in (DirArgs \X LegalNodeArgs) \cup (DeepDirArgs \X IllegalNodeArgs)
                 \cup (ForbiddenDirArgs \X {FileNode(<<"a">>, 3, 1700, Url("m1"))})
                 \cup ({PathOf(<<>>)} \X ControlNameArgs) :
    TreeCall(setNewNode(NewNode(heap, call[2]), call[1]), "setNode", call[1], <<>>, call[2], <<>>)

CreateDirectory ==
  \E path \in PathArgs :
    TreeCall(createDirectory(heap, path), "createDirectory", path, <<>>, NoNode, <<>>)

Delete ==
  \E path \in PathArgs :
    TreeCall(delete(heap, path), "delete", path, <<>>, NoNode, <<>>)

Copy ==
  \E source \in SourceArgs, target \in TargetArgs :
    TreeCall(copy(heap, source, target), "copy", source, target, NoNode, copyTarget(heap, target))

Move ==
  \E source \in SourceArgs, target \in TargetArgs :
    TreeCall(move(heap, source, target), "move", source, target, NoNode, copyTarget(heap, target))

\* the FileSystem after an init that ended as r
Restored(r) ==
  /\ ncalls < MaxCalls
  /\ heap' = Collect(r.heap)
  /\ headers' = r.headers
  /\ encryptionSalt' = r.salt
  /\ encryptionKey' = r.key
  /\ prev' = [heap |-> heap, headers |-> headers]
  /\ before' = last
  /\ last' = CallRecord("exportInit", <<>>, <<>>, NoNode, r.error, FALSE, <<>>)
  /\ ncalls' = ncalls + 1
  /\ UNCHANGED masterKey
  /\ UNCHANGED streamvars

\* export() followed by init(the exported snapshot), with the same masterKey
ExportInit ==
  \E salt \in Salts, now \in IsoDates : Restored(init(masterKey, export(heap, headers), salt, now))

Next == SetNode \/ CreateDirectory \/ Delete \/ Copy \/ Move \/ ExportInit

Spec == Init /\ [][Next]_vars

-----------------------------------------------------------------------------
(* init(sourceData) on a FileSystem that has just been constructed *)

MaxInits == 1

\* a header line as export writes it, and one with white space around the key
\* and the value
HeaderLines(key, value) ==
  { key \o <<":", " ">> \o value,
    <<" ">> \o key \o <<" ", ":">> \o value \o <<" ", " ">> }

\* the values a snapshot may hold under Encryption-Key-Hash: the hash of each
\* passphrase, the hash of the default passphrase in capitals, and no hash at all
PersistedHashes == {keyHash(k) : k \in MasterKeys} \cup {<<"1", "A", "F", "0">>, <<"z", "z">>}

SaltLine == <<"Encryption-Salt", ":", " ">> \o ui8ArrayToHex(<<77, 2>>)

\* the start of a header section: without an Encryption-Salt line, with the line
\* as export writes it, and with a line that has spaces around key and value
SaltSections ==
  { [salt |-> NoHash, lines |-> <<>>],
    [salt |-> ui8ArrayToHex(<<77, 2>>), lines |-> <<SaltLine>>],
    [salt |-> ui8ArrayToHex(<<0, 255>>),
     lines |-> << <<" ", "Encryption-Salt", " ", ":">> \o ui8ArrayToHex(<<0, 255>>) \o <<" ">> >>] }

EntryLine(path, size, creationDate, metaUrl) ==
  Join(<<path, NumberToString(size), NumberToString(creationDate), metaUrl>>, <<"\t">>)

\* header sections that hold the hash v: the persisted hash and the lines
HashSections(v) ==
  {[persisted |-> v, salt |-> pre.salt, lines |-> pre.lines \o <<l>>] :
     pre \in SaltSections, l \in HeaderLines(<<"Encryption-Key-Hash">>, v)}

\* header sections, with and without an Encryption-Key-Hash line
HeaderSections ==
  {[persisted |-> NoHash, salt |-> pre.salt, lines |-> pre.lines] : pre \in SaltSections}
    \cup UNION {HashSections(v) : v \in PersistedHashes}

\* entry sections: no file, one file, two files, and a line that is a header line
\* with a hash of no passphrase but stands among the entries
EntrySections ==
  { <<>>,
    <<EntryLine(PathOf(<<<<"a">>>>), 3, 1700, Url("m1"))>>,
    <<EntryLine(PathOf(<<<<"b">>, <<"a">>>>), 64, 1701, Url("m5")),
      EntryLine(PathOf(<<<<"a">>>>), 3, 1700, Url("m1"))>>,
    <<<<"Encryption-Key-Hash", ":", " ", "z", "z">>>> }

\* what a caller gives to init
SourceData ==
  {[persisted |-> hs.persisted, salt |-> hs.salt,
    text |-> Join(hs.lines \o <<<<>>>> \o es, <<"\n">>)] :
     hs \in HeaderSections, es \in EntrySections}

\* new FileSystem(webhook, masterKey): the fields init assigns are not assigned yet
New(key) ==
  /\ masterKey = key
  /\ heap = <<>>
  /\ headers = undefined
  /\ encryptionSalt = undefined
  /\ encryptionKey = undefined
  /\ prev = [heap |-> <<>>, headers |-> undefined]
  /\ last = CallRecord("new", <<>>, <<>>, NoNode, NoError, FALSE, <<>>)
  /\ before = CallRecord("new", <<>>, <<>>, NoNode, NoError, FALSE, <<>>)
  /\ ncalls = 0
  /\ NoStreams

InitNew == \E key \in MasterKeys : New(key)

\* the FileSystem after init(data.text) has ended as r
Initialised(data, r) ==
  /\ ncalls < MaxInits
  /\ heap' = Collect(r.heap)
  /\ headers' = r.headers
  /\ encryptionSalt' = r.salt
  /\ encryptionKey' = r.key
  /\ prev' = [heap |-> heap, headers |-> headers]
  /\ before' = last
  /\ last' = InitRecord(data, r.error)
  /\ ncalls' = ncalls + 1
  /\ UNCHANGED masterKey
  /\ UNCHANGED streamvars

\* init()
InitFresh ==
  \E salt \in Salts, now \in IsoDates :
    Initialised([persisted |-> NoHash, salt |-> NoHash, text |-> undefined],
                init(masterKey, undefined, salt, now))

\* init(sourceData)
InitRestore ==
  \E data \in SourceData, salt \in Salts, now \in IsoDates :
    Initialised(data, init(masterKey, data.text, salt, now))

NextInit == InitFresh \/ InitRestore

SpecInit == InitNew /\ [][NextInit]_vars

-----------------------------------------------------------------------------
(* streams/upload.ts and streams/download.ts                                *)
(*                                                                         *)
(* A Uint8Array is a sequence of bytes.  MaxChunkSize is scaled down from  *)
(* 7969177 bytes so that a few short writes overflow the buffer.  The      *)
(* WritableStream runs one sink call at a time; a sink call that flushes   *)
(* is suspended at webhook.upload until the store answers.                 *)

MaxChunkSize == 3

\* how many write calls a run makes
MaxWrites == 3

\* AES-GCM appends a 128 bit authentication tag to the ciphertext
TagLength == 16

\* the Uint8Arrays handed to write: empty, short, and longer than MaxChunkSize on its own
Payloads == {<<>>, <<1>>, <<2, 3>>, <<4, 5, 6, 7>>}

\* what crypto.getRandomValues(new Uint8Array(12)) may give, cut to two bytes
IVs == {<<7, 200>>, <<42, 0>>}

\* a.reduce over the byteLength of the elements
RECURSIVE sumByteLength(_)
sumByteLength(arrays) ==
  IF arrays = <<>> THEN 0 ELSE Len(Head(arrays)) + sumByteLength(Tail(arrays))

\* a count of the buffer that is one byte too high
bytesInBufferAndOne(u) == sumByteLength(u.buffer) + 1

\* bytesInBuffer(): the bytes in the internal buffer
bytesInBuffer(u) == sumByteLength(u.buffer)

\* the order in which flush copies the buffered arrays into raw
concatBufferReversed(buffer) == Concat([i \in 1..Len(buffer) |-> buffer[Len(buffer) + 1 - i]])

\* raw in flush: every buffered array set at the offset where the one before it ended
concatBuffer(buffer) == Concat(buffer)

\* AES-GCM: the ciphertext is opened by the key and iv that made it, and by no other
encrypt(data, iv, key) == [plaintext |-> data, iv |-> iv, key |-> key]

cipherByteLength(data) == Len(data.plaintext) + TagLength

decrypt(data, iv, key) ==
  IF data.iv = iv /\ data.key = key
  THEN [ok |-> TRUE, plaintext |-> data.plaintext]
  ELSE [ok |-> FALSE, plaintext |-> <<>>]

\* new UploadStream(webhook, key)
newUploadStream(key) ==
  [buffer |-> <<>>, chunks |-> <<>>, done |-> FALSE, totalBytes |-> 0, key |-> key]

\* a flush that records the chunk and does not count its bytes
flushUncounted(u, data, link, iv) ==
  [u EXCEPT !.chunks = Append(@, [size |-> cipherByteLength(data), link |-> link, iv |-> iv]),
            !.buffer = <<>>]

\* flush from the answer of webhook.upload on: the chunk is recorded, the buffer cleared
flush(u, data, link, iv) ==
  [u EXCEPT !.chunks = Append(@, [size |-> cipherByteLength(data), link |-> link, iv |-> iv]),
            !.totalBytes = @ + cipherByteLength(data),
            !.buffer = <<>>]

\* a write sink that does not keep its payload after the flush
afterFlushDropsWrite(u, running, chunk) ==
  IF running = "write" THEN u ELSE [u EXCEPT !.done = TRUE]

\* the sink call that was suspended in flush goes on after it
afterFlush(u, running, chunk) ==
  IF running = "write" THEN [u EXCEPT !.buffer = <<chunk>>] ELSE [u EXCEPT !.done = TRUE]

\* new DownloadStream(chunks, key)
newDownloadStream(chunks, key) ==
  [chunks |-> chunks, chunkIndex |-> 0, done |-> FALSE, currentBytes |-> 0,
   totalBytes |-> sumByteLength([i \in 1..Len(chunks) |-> [j \in 1..chunks[i].size |-> 0]]),
   key |-> key]

\* the link webhook.upload answers with for the n-th file it has stored
LinkOf(n) == <<"https", ":", "/", "/", "cdn.example", "/">> \o NumberToString(n)

\* webhookUpload from the end of its one request on: fetched tells whether the
\* request was answered, with link as the url of the attachment; after a request
\* that threw response is undefined and the return statement throws
webhookUpload(fetched, link) ==
  LET response == IF fetched THEN <<[attachments |-> <<[url |-> link]>>]>> ELSE <<>>
  IN IF response = <<>>
     THEN [threw |-> TRUE, requests |-> 1, link |-> <<>>]
     ELSE [threw |-> FALSE, requests |-> 1, link |-> response[1].attachments[1].url]

\* what webhook.upload(fileName, [data]) stores
storedFile(fileName, data) == [name |-> fileName, data |-> data]

\* fetch(link): the data stored under the link
fetch(stored, link) == stored[CHOOSE n \in 1..Len(stored) : LinkOf(n) = link].data

\* fetch(chunk.link) answers with what is stored under the link; then decrypt
fetchChunk(d, stored) ==
  decrypt(fetch(stored, d.chunks[d.chunkIndex + 1].link), d.chunks[d.chunkIndex + 1].iv, d.key)

\* rows with the link in the column of the iv and the iv in that of the link
metaRowSwapped(chunks, i) ==
  Join(<<NumberToString(i - 1), NumberToString(chunks[i].size), chunks[i].link,
         ui8ArrayToHex(chunks[i].iv)>>, <<"\t">>)

\* the rows createMetaFile writes, one for each chunk
metaRow(chunks, i) ==
  Join(<<NumberToString(i - 1), NumberToString(chunks[i].size), ui8ArrayToHex(chunks[i].iv),
         chunks[i].link>>, <<"\t">>)

\* the text createMetaFile uploads: a header line and the rows
metaFile(chunks) ==
  Join(<<Join(<< <<"index">>, <<"size">>, <<"iv">>, <<"link">> >>, <<"\t">>)>>
         \o [i \in 1..Len(chunks) |-> metaRow(chunks, i)], <<"\n">>)

\* the chunk fetchMetaFile pushes for a row: const [index, size, ivHex, link] =
\* row.split("\t"); hexToUi8Array throws on an ivHex that is undefined
rowChunk(row) ==
  IF Len(row) < 3 THEN [threw |-> TRUE]
  ELSE [iv |-> hexToUi8Array(row[3]),
        link |-> IF Len(row) < 4 THEN undefined ELSE row[4],
        size |-> parseInt(row[2])]

\* fetchMetaFile(link) from the text of the meta file on: the header line is
\* dropped and each other line gives a chunk
fetchMetaFile(text) ==
  LET data == Tail(Split(text, {"\n"}))
      rows == [i \in 1..Len(data) |-> rowChunk(Split(data[i], {"\t"}))]
  IN IF \E i \in 1..Len(rows) : rows[i] = [threw |-> TRUE]
     THEN [threw |-> TRUE, chunks |-> <<>>]
     ELSE [threw |-> FALSE, chunks |-> rows]

\* the file names given to beginUpload: in the root, in a directory that does
\* not exist yet, and a name setNode refuses
UploadNames == {PathOf(<<<<"a">>>>), PathOf(<<<<"b">>, <<"a">>>>), PathOf(<<<<"a", "?">>>>)}

\* what Date.now() gives
Now == 1700

\* the promise of waitUntilDone resolves at the first poll that finds done set
waitUntilDoneEager(u) == TRUE

waitUntilDone(u) == u.done

\* the node the completion handler gives to setNode
uploadedFile(fileName, u, metaFileUrl) ==
  FileNode(basename(fileName), u.totalBytes, Now, metaFileUrl)

\* new WritableStream(sink): no sink call is running, nothing has thrown
newWritable ==
  [state |-> "writable", running |-> "none", chunk |-> <<>>, error |-> "none", refused |-> FALSE]

\* the WritableStream after the sink call it was running has ended
sinkReturned(w) ==
  [w EXCEPT !.state = IF w.running = "close" THEN "closed" ELSE "writable",
            !.running = "none", !.chunk = <<>>]

\* a sink that goes on as if the call that threw had returned
sinkThrewIgnored(w, error) == [sinkReturned(w) EXCEPT !.state = "writable", !.error = error]

\* the WritableStream after a sink call has thrown: errored, no sink call runs again
sinkThrew(w, error) ==
  [w EXCEPT !.state = "errored", !.running = "none", !.chunk = <<>>, !.error = error]

\* new UploadStream(webhook, key), with no handler attached to its end
NewUpload ==
  /\ upload = NoStream
  /\ upload' = newUploadStream(encryptionKey)
  /\ writable' = newWritable
  /\ UNCHANGED <<blobs, written, download, readable, emitted, completion>>
  /\ UNCHANGED fsvars

\* beginUpload(fileName): a new UploadStream and a handler waiting for its end
BeginUpload ==
  \E fileName \in UploadNames :
    /\ upload = NoStream
    /\ upload' = newUploadStream(encryptionKey)
    /\ writable' = newWritable
    /\ completion' = [fileName |-> fileName, pc |-> "waiting", runs |-> 0, data |-> <<>>]
    /\ UNCHANGED <<blobs, written, download, readable, emitted>>
    /\ UNCHANGED fsvars

\* waitUntilDone resolves and the handler runs up to the webhook.upload of createMetaFile
Completed ==
  /\ completion # NoStream
  /\ completion.pc = "waiting"
  /\ waitUntilDone(upload)
  /\ completion' = [completion EXCEPT !.pc = "meta", !.runs = @ + 1,
                                       !.data = metaFile(upload.chunks)]
  /\ UNCHANGED <<upload, writable, blobs, written, download, readable, emitted>>
  /\ UNCHANGED fsvars

\* webhook.upload stores the meta file; the handler gives the file node to setNode
MetaStored ==
  /\ completion # NoStream
  /\ completion.pc = "meta"
  /\ blobs' = Append(blobs, storedFile("meta", completion.data))
  /\ TreeStep(setNewNode(NewNode(heap, uploadedFile(completion.fileName, upload,
                                                    webhookUpload(TRUE, LinkOf(Len(blobs) + 1)).link)),
                         dirname(completion.fileName)),
              "setNode", dirname(completion.fileName), <<>>,
              uploadedFile(completion.fileName, upload,
                           webhookUpload(TRUE, LinkOf(Len(blobs) + 1)).link), <<>>)
  /\ completion' = [completion EXCEPT !.pc = "ended"]
  /\ UNCHANGED <<upload, writable, written, download, readable, emitted>>

\* webhook.upload throws in createMetaFile: the handler ends there
MetaFailed ==
  /\ completion # NoStream
  /\ completion.pc = "meta"
  /\ webhookUpload(FALSE, <<>>).threw
  /\ completion' = [completion EXCEPT !.pc = "ended"]
  /\ UNCHANGED <<upload, writable, blobs, written, download, readable, emitted>>
  /\ UNCHANGED fsvars

\* sink.write(chunk), up to its end or to the webhook.upload of its flush
Write ==
  \E chunk \in Payloads :
    /\ upload # NoStream
    /\ writable.state = "writable" /\ writable.running = "none"
    /\ Len(written) < MaxWrites
    /\ written' = Append(written, chunk)
    /\ IF bytesInBuffer(upload) + Len(chunk) <= MaxChunkSize
       THEN /\ upload' = [upload EXCEPT !.buffer = Append(@, chunk)]
            /\ UNCHANGED writable
       ELSE /\ writable' = [writable EXCEPT !.running = "write", !.chunk = chunk]
            /\ UNCHANGED upload
    /\ UNCHANGED <<blobs, download, readable, emitted, completion>>
    /\ UNCHANGED fsvars

\* sink.close(), up to the webhook.upload of its flush
Close ==
  /\ upload # NoStream
  /\ writable.state = "writable" /\ writable.running = "none"
  /\ writable' = [writable EXCEPT !.running = "close"]
  /\ UNCHANGED <<upload, blobs, written, download, readable, emitted, completion>>
  /\ UNCHANGED fsvars

\* webhook.upload stores the encrypted buffer and answers with its link
FlushStored ==
  \E iv \in IVs :
    /\ upload # NoStream
    /\ writable.running # "none"
    /\ blobs' = Append(blobs, storedFile("blob", encrypt(concatBuffer(upload.buffer), iv, upload.key)))
    /\ upload' = afterFlush(flush(upload, encrypt(concatBuffer(upload.buffer), iv, upload.key),
                                  webhookUpload(TRUE, LinkOf(Len(blobs) + 1)).link, iv),
                            writable.running, writable.chunk)
    /\ writable' = sinkReturned(writable)
    /\ UNCHANGED <<written, download, readable, emitted, completion>>
    /\ UNCHANGED fsvars

\* webhook.upload throws: flush and the sink call that awaits it throw, the stream is errored
FlushFailed ==
  /\ upload # NoStream
  /\ writable.running # "none"
  /\ webhookUpload(FALSE, <<>>).threw
  /\ writable' = sinkThrew(writable, "store")
  /\ UNCHANGED <<upload, blobs, written, download, readable, emitted, completion>>
  /\ UNCHANGED fsvars

\* an abort sink that throws without clearing the buffer
abortKeepBuffer(u) == u

\* the abort sink up to its throw
abort(u) == [u EXCEPT !.buffer = <<>>]

\* sink.abort(reason): clears the buffer and throws
Abort ==
  /\ upload # NoStream
  /\ writable.state = "writable" /\ writable.running = "none"
  /\ upload' = abort(upload)
  /\ writable' = sinkThrew(writable, "abort")
  /\ UNCHANGED <<blobs, written, download, readable, emitted, completion>>
  /\ UNCHANGED fsvars

\* a write or a close on the errored stream: rejected, no sink call is made
Refused ==
  /\ upload # NoStream
  /\ writable.state = "errored" /\ ~writable.refused
  /\ writable' = [writable EXCEPT !.refused = TRUE]
  /\ UNCHANGED <<upload, blobs, written, download, readable, emitted, completion>>
  /\ UNCHANGED fsvars

\* the keys a DownloadStream is given: the key of the FileSystem that made the
\* upload, and the key of a FileSystem with another passphrase
DownloadKeys == {encryptionKey, getKey(getKeyMaterial(OtherMasterKey), encryptionSalt)}

\* new ReadableStream(source): no pull is running; caught is the error that the
\* running getChunk caught last
newReadable == [state |-> "readable", pulling |-> FALSE, tries |-> 0, caught |-> "none"]

\* a loop of getChunk that makes a fourth turn
triesLeftOfFour(tries) == tries < 4

\* the condition of the loop of getChunk
triesLeft(tries) == tries < 3

\* a pull that does not advance chunkIndex
gotChunkAgain(d, decrypted) == [d EXCEPT !.currentBytes = @ + Len(decrypted)]

\* the DownloadStream after getChunk has returned decrypted and pull has enqueued it
gotChunk(d, decrypted) ==
  [d EXCEPT !.currentBytes = @ + Len(decrypted), !.chunkIndex = @ + 1]

\* a DownloadStream over the chunk list of the closed upload
NewDownload ==
  \E key \in DownloadKeys :
    /\ upload # NoStream /\ upload.done
    /\ download = NoStream
    /\ download' = newDownloadStream(upload.chunks, key)
    /\ readable' = newReadable
    /\ UNCHANGED <<upload, writable, blobs, written, emitted, completion>>
    /\ UNCHANGED fsvars

\* pull(controller), up to its end or to the first fetch of getChunk
Pull ==
  /\ download # NoStream
  /\ readable.state = "readable" /\ ~readable.pulling
  /\ IF download.chunkIndex >= Len(download.chunks)
     THEN /\ readable' = [readable EXCEPT !.state = "closed"]
          /\ download' = [download EXCEPT !.done = TRUE]
     ELSE /\ readable' = [readable EXCEPT !.pulling = TRUE, !.tries = 0, !.caught = "none"]
          /\ UNCHANGED download
  /\ UNCHANGED <<upload, writable, blobs, written, emitted, completion>>
  /\ UNCHANGED fsvars

\* one turn of the loop of getChunk in which fetch answers: pull goes on if
\* decrypt succeeds, and what decrypt throws is caught as what fetch throws is
FetchAnswered ==
  /\ download # NoStream
  /\ readable.pulling /\ triesLeft(readable.tries)
  /\ IF fetchChunk(download, blobs).ok
     THEN /\ download' = gotChunk(download, fetchChunk(download, blobs).plaintext)
          /\ emitted' = Append(emitted, fetchChunk(download, blobs).plaintext)
          /\ readable' = [readable EXCEPT !.pulling = FALSE, !.tries = @ + 1, !.caught = "none"]
     ELSE /\ readable' = [readable EXCEPT !.tries = @ + 1, !.caught = "decrypt"]
          /\ UNCHANGED <<download, emitted>>
  /\ UNCHANGED <<upload, writable, blobs, written, completion>>
  /\ UNCHANGED fsvars

\* one turn of the loop of getChunk in which fetch throws: caught, sleep, next turn
FetchFailed ==
  /\ download # NoStream
  /\ readable.pulling /\ triesLeft(readable.tries)
  /\ readable' = [readable EXCEPT !.tries = @ + 1, !.caught = "fetch"]
  /\ UNCHANGED <<upload, writable, blobs, written, download, emitted, completion>>
  /\ UNCHANGED fsvars

\* the loop of getChunk ends after three turns: getChunk and pull throw, the stream is errored
GiveUp ==
  /\ download # NoStream
  /\ readable.pulling /\ ~triesLeft(readable.tries)
  /\ readable' = [readable EXCEPT !.state = "errored", !.pulling = FALSE]
  /\ UNCHANGED <<upload, writable, blobs, written, download, emitted, completion>>
  /\ UNCHANGED fsvars

InitStream ==
  \E now \in IsoDates : InitWith(DefaultEncryptionKey, <<12, 171>>, <<>>, now)

\* an UploadStream and a DownloadStream over its chunk list
NextStream ==
  \/ NewUpload \/ Write \/ Close \/ FlushStored \/ FlushFailed \/ Abort
  \/ NewDownload \/ Pull \/ FetchAnswered \/ FetchFailed \/ GiveUp

SpecStream == InitStream /\ [][NextStream]_vars

\* an upload begun by beginUpload, with the handler that registers the file
NextUpload ==
  \/ BeginUpload \/ Write \/ Close \/ FlushStored \/ FlushFailed \/ Abort \/ Refused
  \/ Completed \/ MetaStored \/ MetaFailed

SpecUpload == InitStream /\ [][NextUpload]_vars

\* the timer of the poll loop of waitUntilDone fires for as long as the loop runs
SpecUploadFair == SpecUpload /\ WF_vars(Completed)

-----------------------------------------------------------------------------
(* Properties of the tree *)

Segs(path) == Segments(path, {"/"})

IsPrefix(s, t) == Len(s) <= Len(t) /\ SubSeq(t, 1, Len(s)) = s

Nested(s, t) == IsPrefix(s, t) \/ IsPrefix(t, s)

ValAt(h, path) == Val(h, getNode(h, path))

IsDirectoryAt(h, path) == isDirectory(h, getNode(h, path))

isFile(h, id) == id # null /\ h[id].type = File

IsFileAt(h, path) == isFile(h, getNode(h, path))

LegalName(name) == Len(name) >= 1 /\ ~ForbiddenNameCharactersTest(name)

\* v and w are the same node but for the name
SameButName(v, w) ==
  /\ v.type # null
  /\ w.type # null
  /\ [v EXCEPT !.name = w.name] = w

TreeCalls == {"setNode", "createDirectory", "delete", "copy", "move"}

\* C3: for a path p whose intermediate segments are absent or directories and a
\* node n with a legal name equal to basename(p), setNode(dirname(p), n) returns
\* and getNode(p) is then n.
C3_SetNodeThenGetNode ==
  LET segs == Segs(last.path)
      p    == PathOf(Append(segs, last.node.name))
  IN (/\ last.op = "setNode"
      /\ LegalName(last.node.name)
      /\ \A k \in 1..Len(segs) :
           LET q == PathOf(SubSeq(segs, 1, k))
           IN ~exists(prev.heap, q) \/ IsDirectoryAt(prev.heap, q))
     => /\ dirname(p) = last.path
        /\ basename(p) = last.node.name
        /\ last.error = NoError
        /\ ValAt(heap, p) = last.node

\* a setNode into /b/b that created both directories and returned, after a
\* setNode that replaced the directory /a by a file
C3_Witness ==
  /\ last.op = "setNode"
  /\ last.error = NoError
  /\ last.path = PathOf(<<<<"b">>, <<"b">>>>)
  /\ ~exists(prev.heap, PathOf(<<<<"b">>>>))
  /\ IsFileAt(heap, PathOf(<<<<"b">>, <<"b">>, last.node.name>>))
  /\ before.op = "setNode"
  /\ before.error = NoError
  /\ before.path = PathOf(<<>>)
  /\ before.node.name = <<"a">>
  /\ before.node.type = File
  /\ ncalls = 2

\* C8: setNode of a node whose name is empty or holds one of < > : " / \ | ? *
\* fails with an InvalidName error and leaves the tree as it was, no directory
\* of parentDirectory created.
C8_IllegalNameRejected ==
  (last.op = "setNode" /\ ~LegalName(last.node.name))
    => (IsInvalidName(last.error) /\ heap = prev.heap)

\* one refused name for every forbidden character and the empty name, given with
\* a parentDirectory of which no segment exists
C8_Witness ==
  /\ last.op = "setNode"
  /\ last.node.name = <<"a", "?">>
  /\ last.error = ForbiddenCharactersError
  /\ ~exists(heap, PathOf(<<<<"b">>>>))
  /\ before.op = "setNode"
  /\ before.node.name = <<>>
  /\ before.error = InvalidNameError

\* C9: a setNode, createDirectory, delete or copy that throws leaves the tree as
\* it was, and so does a move whose copy step throws.
C9_RejectedCallChangesNothing ==
  (/\ last.op \in TreeCalls
   /\ last.error # NoError
   /\ ~(last.op = "move" /\ last.copied))
    => heap = prev.heap

\* a delete that throws because a segment of the path is a file, after a setNode
\* that threw for the same reason
C9_Witness ==
  /\ last.op = "delete"
  /\ last.error = InvalidOperationError
  /\ IsFileAt(prev.heap, dirname(last.path))
  /\ before.op = "setNode"
  /\ before.error = InvalidOperationError

\* the value v without the node at the path of the segments segs
NamedOther(name, c) == c.name # name

RECURSIVE RemoveVal(_, _)
RemoveVal(v, segs) ==
  IF v.type # Directory \/ segs = <<>> THEN v
  ELSE IF Len(segs) = 1
  THEN [v EXCEPT !.children = SelectSeq(@, LAMBDA c : NamedOther(segs[1], c))]
  ELSE [v EXCEPT !.children =
          [k \in 1..Len(@) |-> IF @[k].name = segs[1] THEN RemoveVal(@[k], Tail(segs)) ELSE @[k]]]

\* C4: delete(p) of a path p, not the root, at which a node exists returns,
\* afterwards exists(p) is false, and the tree is the tree of before without the
\* node at p: the parent, its other children and all outside p are as before.
C4_DeleteRemovesThatNode ==
  (/\ last.op = "delete"
   /\ Segs(last.path) # <<>>
   /\ exists(prev.heap, last.path))
    => /\ last.error = NoError
       /\ ~exists(heap, last.path)
       /\ Val(heap, root) = RemoveVal(Val(prev.heap, root), Segs(last.path))

\* C5: move(a, b) of an existing a, with b different from a and not below a,
\* that returns: afterwards exists(a) is false and the node at b is the node
\* that was at a (under the name of b).
C5_MoveLeavesNoSource ==
  (/\ last.op = "move"
   /\ last.error = NoError
   /\ exists(prev.heap, last.path)
   /\ ~IsPrefix(Segs(last.path), Segs(last.target)))
    => /\ ~exists(heap, last.path)
       /\ SameButName(ValAt(heap, last.target), ValAt(prev.heap, last.path))

\* C6: copy(source, target) of an existing source that returns: the clone is at
\* target + "/" + basename(source) when target was a directory, and else at target,
\* in the place of what was there.
C6_CopyPlacesClone ==
  (/\ last.op = "copy"
   /\ last.error = NoError
   /\ exists(prev.heap, last.path))
    => IF IsDirectoryAt(prev.heap, last.target)
       THEN ValAt(heap, last.target \o <<"/">> \o basename(last.path)) = ValAt(prev.heap, last.path)
       ELSE SameButName(ValAt(heap, last.target), ValAt(prev.heap, last.path))

\* the call last changes the clone that the copy before placed, or what is below it
ChangesClone ==
  /\ before.op = "copy"
  /\ before.error = NoError
  /\ ~Nested(Segs(before.path), Segs(before.placed))
  /\ \/ last.op = "setNode" /\ IsPrefix(Segs(before.placed), Segs(last.path))
     \/ last.op = "createDirectory" /\ IsPrefix(Segs(before.placed), Segs(last.path))
     \/ /\ last.op = "delete"
        /\ IsPrefix(Segs(before.placed), Segs(last.path))
        /\ Segs(before.placed) # Segs(last.path)

\* C7: after copy(a, b) has returned, a setNode, createDirectory or delete on the
\* clone or below it leaves the node at a and all below it as they were, where
\* neither of a and the place of the clone is below the other.
C7_CloneSharesNothing ==
  ChangesClone => ValAt(heap, before.path) = ValAt(prev.heap, before.path)

\* a setNode below the clone of a directory that holds a directory: the clone
\* has changed and the source has not
C7_Witness ==
  /\ ChangesClone
  /\ last.op = "setNode"
  /\ last.error = NoError
  /\ Segs(last.path) # Segs(before.placed)
  /\ IsDirectoryAt(heap, before.path)
  /\ ValAt(heap, before.placed) # ValAt(prev.heap, before.placed)
  /\ ValAt(heap, before.path) = ValAt(prev.heap, before.path)

\* what init keeps of a tree it reads from its export: the files, and the
\* directories that hold a file, directly or below
HoldsFile(v) == v.type = File \/ v.children # <<>>

RECURSIVE Prune(_)
Prune(v) ==
  IF v.type # Directory THEN v
  ELSE [v EXCEPT !.children = SelectSeq([k \in 1..Len(@) |-> Prune(@[k])], HoldsFile)]

PlainNames(h) ==
  \A id \in 2..Len(h) : \A i \in 1..Len(h[id].name) : h[id].name[i] \notin {"\t", "\n"}

C10_WrongPassphraseRejected ==
  last.op = "init"
    => /\ (last.error = AuthenticationError)
            <=> (last.data.persisted # NoHash /\ last.data.persisted # keyHash(masterKey))
       /\ last.error = AuthenticationError => heap = emptyRoot

\* init with another passphrase than the one whose hash the snapshot holds, the
\* snapshot holding entry lines
C10_Witness ==
  /\ last.op = "init"
  /\ last.error = AuthenticationError
  /\ masterKey = OtherMasterKey
  /\ last.data.persisted = keyHash(DefaultEncryptionKey)
  /\ \E i \in 1..Len(last.data.text) : last.data.text[i] = "\t"
  /\ heap = emptyRoot

-----------------------------------------------------------------------------
(* Properties of the streams *)

\* C1: once writes whose sizes sum to more than MaxChunkSize have been followed
\* by a close that completed (so every store succeeded), the chunk list has more
\* than one chunk, and when a DownloadStream over that chunk list with the same
\* key is done, the blocks it emitted, concatenated in emission order, equal the
\* written payloads concatenated in write order.
C1_OverflowSplitsAndRoundTrips ==
  (upload # NoStream /\ upload.done /\ sumByteLength(written) > MaxChunkSize)
    => /\ Len(upload.chunks) > 1
       /\ (download # NoStream /\ download.key = upload.key /\ download.done)
             => Concat(emitted) = Concat(written)

\* three writes, two of them buffered together, overflowed the buffer; the upload
\* closed and a download over its two chunks went to its end
C1_Witness ==
  /\ upload # NoStream /\ upload.done
  /\ download # NoStream /\ download.done
  /\ written = << <<1>>, <<2, 3>>, <<4, 5, 6, 7>> >>
  /\ Len(upload.chunks) = 2
  /\ emitted = << <<1, 2, 3>>, <<4, 5, 6, 7>> >>
  /\ download.currentBytes = 7

-----------------------------------------------------------------------------
(* Properties of init *)

\* C11: after init(sourceData) has completed successfully on a snapshot that
\* holds an Encryption-Salt, the salt in use is the persisted one and not the
\* one generated at the start of init, the key is the one derived from the
\* passphrase and that salt, and the Encryption-Salt header is the hex
\* encoding of the salt in use.
C11_PersistedSaltInUse ==
  (last.op = "init" /\ last.error = NoError /\ last.data.salt # NoHash)
    => /\ encryptionSalt = hexToUi8Array(last.data.salt)
       /\ encryptionSalt \notin Salts
       /\ encryptionKey = getKey(getKeyMaterial(masterKey), hexToUi8Array(last.data.salt))
       /\ MapGet(headers, <<"Encryption-Salt">>) = ui8ArrayToHex(encryptionSalt)

\* a snapshot with the salt 00ff, a matching key hash and a file was restored
\* under the other passphrase
C11_Witness ==
  /\ last.op = "init" /\ last.error = NoError
  /\ masterKey = OtherMasterKey
  /\ last.data.salt = <<"0", "0", "f", "f">>
  /\ last.data.persisted = keyHash(OtherMasterKey)
  /\ encryptionSalt = <<0, 255>>
  /\ Len(heap) = 2

-----------------------------------------------------------------------------
(* Properties of beginUpload *)

\* the file the completion handler registered, null if there is none
Registered == getNode(heap, completion.fileName)

\* what holds of the completion handler in every state
CompletionInOrder ==
  /\ (upload # NoStream /\ upload.done)
       => upload.buffer = <<>> /\ Len(upload.chunks) >= 1 /\ writable.state = "closed"
  /\ completion # NoStream
       => /\ completion.runs <= 1
          /\ completion.runs = 1
               => /\ upload.done
                  /\ completion.data = metaFile(upload.chunks)
          /\ Registered # null
               => /\ completion.runs = 1
                  /\ fetch(blobs, heap[Registered].metaUrl) = metaFile(upload.chunks)
                  /\ heap[Registered].size = upload.totalBytes

\* C12: close on a stream of beginUpload flushes a last time and then marks the
\* stream done; the completion handler runs once and no more, after the last
\* chunk has been appended, and it works with the whole chunk list and the
\* total byte count of the stream.
C12_CompletionOnceAfterClose ==
  /\ []CompletionInOrder
  /\ (upload # NoStream /\ upload.done) ~> (completion # NoStream /\ completion.runs = 1)

\* an upload to /b/a of two chunks was closed and its handler registered the file
C12_Witness ==
  /\ upload # NoStream /\ upload.done /\ Len(upload.chunks) = 2
  /\ completion.fileName = PathOf(<<<<"b">>, <<"a">>>>)
  /\ completion.runs = 1 /\ completion.pc = "ended"
  /\ Registered # null
  /\ heap[Registered].size = 2 * TagLength + 7

\* the files the webhook has stored under the name "meta"
MetaFiles == {n \in 1..Len(blobs) : blobs[n].name = "meta"}

\* what holds once the store call of a flush has failed
StoreFailureIsFatal ==
  (writable # NoStream /\ writable.error = "store")
    => /\ ~upload.done
       /\ writable.state = "errored"
       /\ Len(upload.chunks) = Len(blobs)
       /\ completion.runs = 0
       /\ MetaFiles = {}
       /\ Registered = null

\* a step in which the store call of a flush fails
StoreFails == writable # NoStream /\ writable.running # "none" /\ writable'.error = "store"

\* C13: when the store call of a flush fails, no chunk is appended for that
\* flush, and from then on the stream is never done, no meta file is stored
\* and no file node is registered for the upload.
C13_StoreFailureIsFatal ==
  /\ []StoreFailureIsFatal
  /\ [][StoreFails => upload'.chunks = upload.chunks /\ blobs' = blobs]_vars

\* the store failed in the flush of close, after one chunk had been stored
C13_Witness ==
  /\ writable # NoStream /\ writable.error = "store"
  /\ Len(upload.chunks) = 1
  /\ upload.buffer = << <<4, 5, 6, 7>> >>
  /\ written = << <<2, 3>>, <<4, 5, 6, 7>> >>

\* what holds once the abort sink has run
AbortedForGood ==
  (writable # NoStream /\ writable.error = "abort")
    => /\ upload.buffer = <<>>
       /\ ~upload.done
       /\ writable.state = "errored" /\ writable.running = "none"
       /\ Len(upload.chunks) = Len(blobs)
       /\ completion.runs = 0
       /\ MetaFiles = {}
       /\ Registered = null

\* a step in which the abort sink runs
Aborts == writable # NoStream /\ writable.error = "none" /\ writable'.error = "abort"

\* a step taken after the abort sink has run
AfterAbort == writable # NoStream /\ writable.error = "abort"

\* C14: the abort sink empties the buffer and leaves the chunks flushed so far
\* in the chunk list; from then on the stream is never done, no chunk is
\* flushed, a write or a close is rejected without any effect on the stream,
\* and no file node is registered for the upload.
C14_AbortIsFinal ==
  /\ []AbortedForGood
  /\ [][Aborts => upload'.buffer = <<>> /\ upload'.chunks = upload.chunks]_vars
  /\ [][AfterAbort => upload' = upload /\ blobs' = blobs /\ written' = written
                        /\ writable'.state = "errored"]_vars

\* abort ran with one chunk flushed and one payload buffered, and a later
\* write or close was rejected
C14_Witness ==
  /\ writable # NoStream /\ writable.error = "abort" /\ writable.refused
  /\ written = << <<2, 3>>, <<4, 5, 6, 7>> >>
  /\ Len(upload.chunks) = 1
  /\ upload.buffer = <<>>

-----------------------------------------------------------------------------
(* Properties of the DownloadStream *)

\* the plaintext that was encrypted and stored for the chunk getChunk is working on
PlaintextOfChunk == blobs[download.chunkIndex + 1].data.plaintext

\* a step that is a turn of the loop of getChunk: one more fetch of the chunk
Attempt == download # NoStream /\ readable'.tries = readable.tries + 1

\* the turn of the loop in which the chunk is fetched and decrypted
Succeeds == Attempt /\ ~readable'.pulling

\* a step in which getChunk throws
GivesUp == download # NoStream /\ readable.state = "readable" /\ readable'.state = "errored"

\* C15: getChunk fetches a chunk at most 3 times.  A fetch that succeeds, be it
\* the third after two failures, makes the stream emit the plaintext of that
\* chunk and go on with the next chunk.  After three failures the stream ends
\* with an error without emitting anything for the chunk, and it never fetches
\* or emits again.
C15_ThreeAttempts ==
  /\ [][Attempt => readable.tries < 3 /\ readable.pulling]_vars
  /\ [][Succeeds => /\ emitted' = Append(emitted, PlaintextOfChunk)
                     /\ download'.chunkIndex = download.chunkIndex + 1
                     /\ readable'.state = "readable"]_vars
  /\ [][GivesUp => readable.tries = 3 /\ emitted' = emitted /\ download' = download]_vars
  /\ [][(download # NoStream /\ readable.state = "errored")
          => UNCHANGED <<download, readable, emitted>>]_vars

\* the first chunk was emitted at the third fetch, after two had failed
C15_Witness ==
  /\ download # NoStream
  /\ readable.state = "readable" /\ ~readable.pulling /\ readable.tries = 3
  /\ download.chunkIndex = 1 /\ Len(download.chunks) = 2
  /\ emitted = << <<1, 2, 3>> >>

\* three fetches of the second chunk have failed and the stream has ended with an error
C15_WitnessError ==
  /\ download # NoStream
  /\ readable.state = "errored" /\ readable.tries = 3
  /\ download.chunkIndex = 1 /\ Len(download.chunks) = 3
  /\ Len(emitted) = 1

\* C16: a chunk whose decryption fails is a permanent failure: once getChunk
\* has caught what decrypt threw, the stream does not fetch or decrypt the
\* chunk again with the same key, and the download fails.
C16_DecryptFailureIsPermanent ==
  [][(download # NoStream /\ readable.caught = "decrypt") => ~Attempt]_vars

\* the plaintext that was encrypted and stored for the i-th chunk of the download
PlaintextOf(i) == fetch(blobs, download.chunks[i].link).plaintext

\* the blocks emitted so far are those of the first chunkIndex chunks, in order
EmittedInOrder ==
  download # NoStream
    => /\ download.chunkIndex <= Len(download.chunks)
       /\ emitted = [i \in 1..download.chunkIndex |-> PlaintextOf(i)]
       /\ download.done <=> readable.state = "closed"
       /\ download.done => download.chunkIndex = Len(download.chunks) /\ ~readable.pulling

\* C17: the blocks a DownloadStream has emitted are at every moment the
\* plaintexts of the first chunks of the manifest, one block for each chunk and
\* in manifest order; a chunk is fetched only by the one getChunk in progress
\* and only when every chunk before it has been emitted; a pull begins only
\* when none is in progress; after the last chunk the stream closes, and a
\* closed stream fetches and emits nothing.
C17_OneBlockPerChunkInOrder ==
  /\ []EmittedInOrder
  /\ [][Attempt => readable.pulling /\ Len(emitted) = download.chunkIndex]_vars
  /\ [][(download # NoStream /\ readable'.pulling /\ readable'.tries = 0)
          => ~readable.pulling]_vars
  /\ [][(download # NoStream /\ readable.state = "closed")
          => UNCHANGED <<download, readable, emitted>>]_vars

\* a download of three chunks, the first of them empty, has closed
C17_Witness ==
  /\ download # NoStream /\ download.done
  /\ readable.state = "closed"
  /\ emitted = << <<>>, <<4, 5, 6, 7>>, <<1>> >>

-----------------------------------------------------------------------------
(* Properties of the UploadStream *)

\* the plaintexts that were encrypted and stored for the chunks of the upload, in list order
ChunkPlaintexts == [i \in 1..Len(upload.chunks) |-> fetch(blobs, upload.chunks[i].link).plaintext]

\* the payload of the write sink that is waiting for its flush
Pending == IF writable.running = "write" THEN writable.chunk ELSE <<>>

\* as long as nothing has thrown, the chunks, then the buffer, then the payload
\* of the waiting write hold the written bytes in write order
WrittenInOrder ==
  (upload # NoStream /\ writable.error = "none")
    => Concat(ChunkPlaintexts) \o Concat(upload.buffer) \o Pending = Concat(written)

\* a flush is in progress
Flushing == upload # NoStream /\ writable.running # "none"

\* C18: at most one flush is in progress at any moment.  From the moment a
\* write or close has begun its flush to the moment the flush ends, no write is
\* taken and no close begins, and the stream changes only by that flush
\* ending: the payload of the waiting write is put into the buffer by the step
\* that ends the flush and not before.  The chunks are listed in the order in
\* which their data was written.
C18_OneFlushAtATime ==
  /\ []WrittenInOrder
  /\ [][Flushing => /\ written' = written
                     /\ writable'.running \in {writable.running, "none"}
                     /\ writable'.running # "none" => upload' = upload]_vars
  /\ [][(upload # NoStream /\ writable.running = "none" /\ writable'.running = "write")
          => upload' = upload /\ writable'.chunk = written'[Len(written')]]_vars
  /\ [][(Flushing /\ upload' # upload)
          => /\ Len(upload'.chunks) = Len(upload.chunks) + 1
             /\ upload'.buffer = (IF writable.running = "write"
                                   THEN <<writable.chunk>> ELSE <<>>)]_vars

\* the second write did not fit, waited for the flush of the first and was
\* then buffered; the close that followed is waiting for its flush
C18_Witness ==
  /\ upload # NoStream /\ writable.running = "close"
  /\ written = << <<2, 3>>, <<4, 5, 6, 7>> >>
  /\ Len(upload.chunks) = 1
  /\ ChunkPlaintexts = << <<2, 3>> >>
  /\ upload.buffer = << <<4, 5, 6, 7>> >>

-----------------------------------------------------------------------------
(* Invariants of the tree *)

\* the names of the children of a directory differ from one another
UniqueChildNames(h, id) ==
  \A i, j \in 1..Len(h[id].children) :
    i # j => h[h[id].children[i]].name # h[h[id].children[j]].name

\* C19: in every tree reached from the empty filesystem by setNode,
\* createDirectory, delete, copy, move and import, with argument nodes whose
\* children have names of their own, no directory has two children of the same name.
C19_ChildNamesUnique ==
  \A id \in 1..Len(heap) : heap[id].type = Directory => UniqueChildNames(heap, id)

\* a setNode or a copy has put a node where a node of that name was
C19_Witness ==
  /\ last.op \in {"setNode", "copy"} /\ last.error = NoError
  /\ last.op = "setNode" => exists(prev.heap, last.path \o <<"/">> \o last.node.name)
  /\ last.op = "copy" => exists(prev.heap, last.placed)
  /\ \E id \in 1..Len(heap) : heap[id].type = Directory /\ Len(heap[id].children) >= 2

\* C20: in every tree reached from the empty filesystem by setNode,
\* createDirectory, copy, move and import, every node but the root has a name
\* that is not empty and holds no forbidden character, the directories made
\* for the segments of a parent path among them.
C20_NamesLegal ==
  \A id \in 2..Len(heap) : LegalName(heap[id].name)

-----------------------------------------------------------------------------
(* Properties of walkDirectory and export *)

\* the files in the subtree of the directory d, in depth-first pre-order
FilesPreOrder(h, d) ==
  LET isFileId(id) == h[id].type = File IN SelectSeq(Reach(h, <<d>>, <<>>), isFileId)

\* the calls walkDirectory(d, visitor) makes are one for each file under d, in
\* depth-first pre-order
WalkVisitsFiles(h, d) ==
  [i \in 1..Len(walkDirectory(h, d, <<>>)) |-> walkDirectory(h, d, <<>>)[i].file]
    = FilesPreOrder(h, d)

\* the path of every call walkDirectory(d, visitor) makes leads to the file of that call
WalkGivesFullPaths(h, d) ==
  \A i \in 1..Len(walkDirectory(h, d, <<>>)) :
    getNode(h, walkDirectory(h, d, <<>>)[i].path) = walkDirectory(h, d, <<>>)[i].file

\* C21: for every directory startDir of the tree, walkDirectory(startDir,
\* visitor) calls the visitor once for each file in the subtree of startDir and
\* for no directory, in depth-first pre-order along the insertion order of the
\* children, and the path given with a file is the full path of that file:
\* getNode of it returns the file.
C21_WalkVisitsFilesWithFullPath ==
  \A d \in 1..Len(heap) :
    heap[d].type = Directory => WalkVisitsFiles(heap, d) /\ WalkGivesFullPaths(heap, d)

\* the keys of the headers in the order in which the type FileSystemHeaders lists them
EnumerationOrder ==
  << <<"FileSystem-Version">>, <<"Use-Encryption">>, <<"Encryption-Salt">>,
     <<"Encryption-Key-Hash">>, <<"Description">>, <<"Creation-Date">>, <<"Tags">> >>

\* the keys of the headers in the order in which init sets them
InsertionOrder ==
  << <<"FileSystem-Version">>, <<"Creation-Date">>, <<"Description">>, <<"Tags">>,
     <<"Use-Encryption">>, <<"Encryption-Salt">>, <<"Encryption-Key-Hash">> >>

\* the line of the snapshot for the file of a call of the visitor
FileLine(call) ==
  Join(<<call.path, NumberToString(heap[call.file].size),
         NumberToString(heap[call.file].creationDate), heap[call.file].metaUrl>>, <<"\t">>)

\* text is one "Key: value" line for each key of order, in that order, one
\* empty line, and one line for each call of the visitor, in that order
ExportShape(text, order, calls) ==
  text = Join([i \in 1..Len(order) |-> order[i] \o <<":", " ">> \o MapGet(headers, order[i])]
                \o << <<>> >>
                \o [j \in 1..Len(calls) |-> FileLine(calls[j])], <<"\n">>)

\* C22 as stated: export() writes one "Key: value" line for each header in the
\* order FileSystem-Version, Use-Encryption, Encryption-Salt,
\* Encryption-Key-Hash, Description, Creation-Date, Tags, then one empty line,
\* then one tab-separated line for each file in walk order.
C22_ExportInEnumerationOrder ==
  ExportShape(export(heap, headers), EnumerationOrder,
              walkDirectory(heap, root, <<>>))

\* C22 as amended: export() writes one "Key: value" line for each header in the
\* insertion order of the headers, FileSystem-Version, Creation-Date,
\* Description, Tags, Use-Encryption, Encryption-Salt, Encryption-Key-Hash,
\* then one empty line, then one tab-separated line for each file in walk order.
C22_ExportInInsertionOrder ==
  ExportShape(export(heap, headers), InsertionOrder,
              walkDirectory(heap, root, <<>>))

\* a restored tree with files in two directories
C22_Witness ==
  /\ last.op = "exportInit" /\ last.error = NoError
  /\ Len(walkDirectory(heap, root, <<>>)) >= 2
  /\ \E id \in 2..Len(heap) : heap[id].type = Directory

\* C23: delete(p) of a path p at which no node exists, be it that the last name
\* is missing in its parent or that a directory above it is missing, fails with
\* InvalidOperation and leaves the tree as it was.
C23_DeleteOfMissingFails ==
  (/\ last.op = "delete"
   /\ Segs(last.path) # <<>>
   /\ ~exists(prev.heap, last.path))
    => /\ last.error = InvalidOperationError
       /\ Val(heap, root) = Val(prev.heap, root)

RECURSIVE SumOfSizes(_)
\* the sum of the sizes of the chunks of a chunk list
SumOfSizes(chunks) ==
  IF chunks = <<>> THEN 0 ELSE chunks[1].size + SumOfSizes(Tail(chunks))

RequestFailsInFlush ==
  /\ writable # NoStream /\ writable.running # "none"
  /\ writable' # writable /\ blobs' = blobs

\* a step in which the request of the webhookUpload call of createMetaFile fails
RequestFailsInMeta ==
  /\ completion # NoStream /\ completion.pc = "meta"
  /\ completion' # completion /\ blobs' = blobs

\* C25: webhookUpload retries: a failed request does not end the call, which
\* goes on to another request and returns the link once a request succeeds.
C25_FailedRequestIsRetried ==
  /\ [][RequestFailsInFlush =>
          writable'.state = "writable" /\ writable'.running = writable.running]_vars
  /\ [][RequestFailsInMeta => completion'.pc = "meta"]_vars

\* a step in which the write sink is called
WriteTaken == upload # NoStream /\ Len(written') = Len(written) + 1

\* the payload of the write fits into the buffer
Fits == sumByteLength(upload.buffer) + Len(written'[Len(written')]) <= MaxChunkSize

\* a step in which the write sink returns from the flush it waited for
WriteFlushed ==
  /\ upload # NoStream /\ writable.running = "write"
  /\ writable'.running = "none" /\ writable'.error = "none"

\* every payload above MaxChunkSize is the plaintext of one chunk of the closed upload
OversizedInOneChunk ==
  (upload # NoStream /\ upload.done)
    => \A i \in 1..Len(written) :
         Len(written[i]) > MaxChunkSize
           => \E k \in 1..Len(upload.chunks) : ChunkPlaintexts[k] = written[i]

IndexColumn(text) ==
  [i \in 1..(Len(Split(text, {"\n"})) - 1) |-> Split(Split(text, {"\n"})[i + 1], {"\t"})[1]]

\* fetchMetaFile gives chunks back from the text createMetaFile writes for
\* them, and the index column of the text counts the rows from 0
RoundTrips(chunks) ==
  /\ fetchMetaFile(metaFile(chunks)) = [threw |-> FALSE, chunks |-> chunks]
  /\ IndexColumn(metaFile(chunks)) = [i \in 1..Len(chunks) |-> NumberToString(i - 1)]

\* C27: for every chunk list, the empty one too, fetchMetaFile of the text
\* createMetaFile wrote gives a list of the same length with the same size, iv
\* and link at each position, and the index column of a row is its position
\* counted from 0.
C27_ManifestRoundTrips ==
  /\ RoundTrips(<<>>)
  /\ upload # NoStream => RoundTrips(upload.chunks)
  /\ \A n \in MetaFiles : fetchMetaFile(blobs[n].data).chunks = upload.chunks

\* the meta file of an upload of two chunks is stored
C27_Witness ==
  /\ upload # NoStream /\ upload.done
  /\ MetaFiles # {}
  /\ Len(upload.chunks) = 2
  /\ upload.chunks[1].iv # upload.chunks[2].iv

\* the stream has terminated: closed, or errored by an abort or a flush that failed
Terminated == writable # NoStream /\ writable.state \in {"closed", "errored"}

\* C28: waitUntilDone() of a stream that has terminated, by a close that
\* succeeded, by an abort or by a flush that failed, eventually returns.
C28_WaitUntilDoneReturns ==
  Terminated ~> (completion # NoStream /\ completion.pc # "waiting")

\* the walk of export visits the file the completion handler registered
Exported(calls) == \E i \in 1..Len(calls) : calls[i].file = Registered

\* C29: once the stream of beginUpload(fileName) is done, the file node of
\* fileName is in the tree: getNode(fileName) finds it and export() writes it.
C29_DoneMeansRegistered ==
  (upload # NoStream /\ completion # NoStream /\ upload.done)
    => /\ Registered # null
       /\ heap[Registered].type = File
       /\ Exported(walkDirectory(heap, root, <<>>))

\* what new Date().toISOString() may give at the time of a later init
LaterDates == {<<"2024-02-29T23", ":", "59", ":", "59.999Z">>}

\* the init that ended as r has restored a FileSystem whose export is x
FixedPoint(x, r) ==
  /\ r.error = NoError
  /\ export(Collect(r.heap), r.headers) = x

\* C30: for every snapshot x that export() gives, init(x) with the same
\* passphrase followed by export() gives x again: the same header lines and
\* the same file lines, each in the same order.
C30_ExportIsFixedPoint ==
  \A salt \in Salts, now \in IsoDates \cup LaterDates :
    FixedPoint(export(heap, headers), init(masterKey, export(heap, headers), salt, now))

=============================================================================
